---- MODULE Spec2Model ----
(***************************************************************************)
(* Model of daily-meeting-transcriber:                                     *)
(*   - markdown_to_notion_blocks (services/notion_service.py and the copy  *)
(*     nested in main() of daily-meeting-transcriber.py),                  *)
(*   - transcribe_audio / transcribe_audio_chunk                           *)
(*     (services/transcription_service.py),                                *)
(*   - the head of process_audio_service (services/audio_service.py).      *)
(* Text is a sequence of one-character strings.                            *)
(***************************************************************************)
EXTENDS Integers, Sequences, FiniteSets, TLC

VARIABLES
    md,         \* markdown_to_notion_blocks: the argument md
    lines,      \* md.splitlines()
    i,          \* the line index of the outer while loop
    out,        \* blocks, each with the index of the line it was appended for
    inRun,      \* control is inside the inner while loop of the bullet branch
    mpc         \* "loop" | "done"

mdvars == <<md, lines, i, out, inRun, mpc>>

VARIABLES
    api_key_set,     \* OPENAI_API_KEY is set and not empty
    source,          \* the audio file: "ok" | "missing" | "unreadable"
    decodable,       \* AudioSegment.from_file can decode the file
    file_size,       \* os.path.getsize(audio_path)
    duration_ms,     \* len(audio)
    spc,             \* process_audio_service: position of the request
    tpc,             \* transcribe_audio: position of the call
    cpc,             \* transcribe_audio_chunk: "idle" | "open" | "wait"
    chunk_size_ms,   \* transcribe_audio: chunk_size_ms
    chunks,          \* the slices [lo, hi) of the audio, in list order
    ci,              \* the ordinal i of the for loop over chunks
    full_transcript, \* the accumulator
    temp_files,      \* ordinals of the chunk paths appended to temp_files
    ri,              \* position of the cleanup loop in temp_files
    disk,            \* ordinals k whose /tmp/chunk_k.mp3 exists
    result,          \* what transcribe_audio returned
    calls,           \* calls of transcribe_audio_chunk and their returns
    net,             \* remote requests issued, in order
    logged           \* number of cleanup errors logged

trvars == <<api_key_set, source, decodable, file_size, duration_ms, spc, tpc,
            cpc, chunk_size_ms, chunks, ci, full_transcript, temp_files, ri,
            disk, result, calls, net, logged>>

VARIABLES
    token_set,       \* NOTION_TOKEN is set
    schema,          \* the uploaded Notion schema, by what the code tells apart
    response         \* the payload process_audio_service returned

nvars == <<token_set, schema, response>>

VARIABLES
    main_pc,         \* the command-line program: position of main
    timers           \* the live timers started, each with its calls of set()

cvars == <<main_pc, timers>>

VARIABLES
    runs,            \* two concurrent calls of transcribe_audio, by run
    tmp,             \* /tmp/chunk_k.mp3 by ordinal k: 0 absent, else the run
                     \* that wrote the file last
    foreign          \* accesses of a run to a file the other run wrote

pvars == <<runs, tmp, foreign>>

vars == <<mdvars, trvars, nvars, cvars, pvars>>

\* no concurrent runs
TwoIdle == runs = <<>> /\ tmp = <<>> /\ foreign = {}

\* the command-line program is not running
CliIdle == main_pc = "idle" /\ timers = <<>>

\* no payload has been returned
NoResponse ==
    [returned |-> FALSE, transcript_success |-> FALSE, notion_sent |-> FALSE,
     error |-> "none"]

\* the publishing part of a request has not been reached
NtIdle == token_set = TRUE /\ schema = "none" /\ response = NoResponse

(***************************************************************************)
(* Bounds of the model.                                                    *)
(***************************************************************************)
MaxLines == 3      \* lines of a generated Markdown input
MaxBlank == 1      \* blank lines inserted at one position
MaxSizeFactor == 3 \* file sizes up to this multiple of the ceiling (+1)
MaxDuration == 3   \* decoded durations, in ms

(***************************************************************************)
(* Python str helpers, computed on character sequences.                    *)
(***************************************************************************)
NL == "\n"

\* str.strip() with no argument strips whitespace; the model's alphabet has
\* the space and the tab.
IsSpace(c) == c \in {" ", "\t"}

RECURSIVE LStrip(_)
LStrip(s) ==
    IF s = <<>> THEN <<>>
    ELSE IF IsSpace(Head(s)) THEN LStrip(Tail(s)) ELSE s

RECURSIVE RStrip(_)
RStrip(s) ==
    IF s = <<>> THEN <<>>
    ELSE IF IsSpace(s[Len(s)]) THEN RStrip(SubSeq(s, 1, Len(s) - 1)) ELSE s

Strip(s) == RStrip(LStrip(s))

StartsWith(s, p) == Len(s) >= Len(p) /\ SubSeq(s, 1, Len(p)) = p

\* str.replace(old, new): non-overlapping occurrences, left to right.
RECURSIVE Replace(_, _, _)
Replace(s, old, new) ==
    IF Len(s) < Len(old) THEN s
    ELSE IF StartsWith(s, old)
         THEN new \o Replace(SubSeq(s, Len(old) + 1, Len(s)), old, new)
         ELSE <<Head(s)>> \o Replace(Tail(s), old, new)

\* str.splitlines(): the text between line breaks; a final line break opens
\* no further (empty) line.  cur is the line being collected.
RECURSIVE SplitFrom(_, _)
SplitFrom(s, cur) ==
    IF s = <<>> THEN (IF cur = <<>> THEN <<>> ELSE <<cur>>)
    ELSE IF Head(s) = NL THEN <<cur>> \o SplitFrom(Tail(s), <<>>)
         ELSE SplitFrom(Tail(s), Append(cur, Head(s)))

SplitLines(s) == SplitFrom(s, <<>>)

(***************************************************************************)
(* Markers of the Markdown dialect.                                        *)
(***************************************************************************)
DashBox == <<"-", " ", "[", " ", "]">>      \* '- [ ]'
Box     == <<"[", " ", "]">>                \* '[ ]'
Hashes  == <<"#", "#", "#", " ">>           \* '### '
Dash    == <<"-", " ">>                     \* '- '

(***************************************************************************)
(* The branch conditions of markdown_to_notion_blocks, on a stripped line. *)
(***************************************************************************)
IsBlankNever(line) == FALSE
IsBlank(line) == line = <<>>

IsChecklist(line) == StartsWith(line, DashBox) \/ StartsWith(line, Box)

IsHeading(line) == StartsWith(line, Hashes)

IsBulletStartLoose(line) == StartsWith(line, <<"-">>)
IsBulletStart(line) == StartsWith(line, Dash)

\* the inner while condition, on lines[i].strip()
InRunAnyDash(line) == StartsWith(line, Dash)
InRunNotBlank(line) == line # <<>> /\ ~StartsWith(line, DashBox)
InRunCond(line) == StartsWith(line, Dash) /\ ~StartsWith(line, DashBox)

(***************************************************************************)
(* The blocks appended by each branch.                                     *)
(***************************************************************************)
ToDoBlock(line) ==
    [type |-> "to_do",
     content |-> Strip(Replace(Replace(line, DashBox, <<>>), Box, <<>>)),
     checked |-> FALSE]

HeadingBlock(line) ==
    [type |-> "heading_2", content |-> Strip(SubSeq(line, 5, Len(line)))]

BulletBlock(line) ==
    [type |-> "bulleted_list_item", content |-> Strip(SubSeq(line, 3, Len(line)))]

ParagraphBlock(line) == [type |-> "paragraph", content |-> line]

\* blocks.append(b), remembering the index of the line being translated
AppendFront(o, b, k) == <<[block |-> b, line |-> k]>> \o o
AppendBlock(o, b, k) == Append(o, [block |-> b, line |-> k])

\* the value returned: the blocks alone
BlocksOf(o) == [k \in 1..Len(o) |-> o[k].block]

(***************************************************************************)
(* Inputs: lines built from a marker prefix and a body, joined by "\n".    *)
(***************************************************************************)
Prefixes == {<<>>, <<" ">>, Dash, DashBox \o <<" ">>, Box \o <<" ">>, Hashes}
Bodies   == {<<>>, <<"a">>}
LineSet  == {p \o b : p \in Prefixes, b \in Bodies}

RECURSIVE Join(_)
Join(ls) ==
    IF ls = <<>> THEN <<>>
    ELSE IF Len(ls) = 1 THEN ls[1]
         ELSE ls[1] \o <<NL>> \o Join(Tail(ls))

LineSeqs(n) == UNION {[1..k -> LineSet] : k \in 0..n}

\* the examples of the specification
Txt(c) == <<c>>
ExampleRun ==
    <<Dash \o Txt("a"), Dash \o Txt("b"), Hashes \o Txt("C"), Dash \o Txt("d")>>
ExampleDoc ==
    <<Hashes \o Txt("W"), Dash \o Txt("X"), Dash \o Txt("Y"), <<>>,
      Hashes \o Txt("A"), DashBox \o <<" ", "f">>>>

\* checklist lines whose text holds a marker again
InnerMarkerDocs ==
    {<<DashBox \o <<" ", "x", " ">> \o Box \o <<" ", "y">>>>,
     <<Box \o <<" ", "x", " ">> \o DashBox \o <<" ", "y">>, Dash \o Txt("z")>>}

Docs ==
    {Join(ls) : ls \in LineSeqs(MaxLines) \cup {ExampleRun, ExampleDoc}
                        \cup InnerMarkerDocs}

(***************************************************************************)
(* markdown_to_notion_blocks.  Iter is one evaluation of a loop condition  *)
(* with the branch it selects: from line index k, blocks o and r (control  *)
(* is inside the inner while of the bullet branch) to the next such state. *)
(***************************************************************************)
Iter(ls, k, o, r) ==
    IF r
    THEN IF k <= Len(ls) /\ InRunCond(Strip(ls[k]))
         THEN [i |-> k + 1, inRun |-> TRUE,
               out |-> AppendBlock(o, BulletBlock(Strip(ls[k])), k)]
         ELSE [i |-> k, inRun |-> FALSE, out |-> o]
    ELSE LET line == Strip(ls[k]) IN
         IF IsBlank(line) THEN [i |-> k + 1, inRun |-> FALSE, out |-> o]
         ELSE IF IsChecklist(line)
         THEN [i |-> k + 1, inRun |-> FALSE,
               out |-> AppendBlock(o, ToDoBlock(line), k)]
         ELSE IF IsHeading(line)
         THEN [i |-> k + 1, inRun |-> FALSE,
               out |-> AppendBlock(o, HeadingBlock(line), k)]
         ELSE IF IsBulletStart(line)
         THEN [i |-> k, inRun |-> TRUE, out |-> o]
         ELSE [i |-> k + 1, inRun |-> FALSE,
               out |-> AppendBlock(o, ParagraphBlock(line), k)]

\* The whole call, for a second input: iterate to the end of the outer loop.
\* fuel bounds the number of iterations (each line costs at most three).
RECURSIVE RunFrom(_, _, _, _, _)
RunFrom(ls, k, o, r, fuel) ==
    IF ~r /\ k > Len(ls) THEN o
    ELSE IF fuel = 0 THEN <<"diverges">>
    ELSE LET n == Iter(ls, k, o, r) IN RunFrom(ls, n.i, n.out, n.inRun, fuel - 1)

markdown_to_notion_blocks(text) ==
    LET ls == SplitLines(text)
    IN  BlocksOf(RunFrom(ls, 1, <<>>, FALSE, 3 * Len(ls) + 1))

\* no request is being served
TrIdle ==
    /\ api_key_set = TRUE /\ source = "ok" /\ decodable = TRUE
    /\ file_size = 1 /\ duration_ms = 0
    /\ spc = "idle" /\ tpc = "idle" /\ cpc = "idle"
    /\ chunk_size_ms = 0 /\ chunks = <<>> /\ ci = 0
    /\ full_transcript = <<>> /\ temp_files = <<>> /\ ri = 0
    /\ disk = {} /\ result = <<>> /\ calls = <<>> /\ net = <<>>
    /\ logged = 0

InitMd ==
    /\ TrIdle /\ NtIdle /\ CliIdle /\ TwoIdle
    /\ md \in Docs
    /\ lines = SplitLines(md)
    /\ i = 1
    /\ out = <<>>
    /\ inRun = FALSE
    /\ mpc = "loop"

Cur == Strip(lines[i])

AtLine == mpc = "loop" /\ ~inRun /\ i <= Len(lines)

Advance ==
    LET n == Iter(lines, i, out, inRun)
    IN  /\ i' = n.i
        /\ out' = n.out
        /\ inRun' = n.inRun
        /\ UNCHANGED <<md, lines, mpc, trvars, nvars, cvars, pvars>>

\* if not line: i += 1; continue
MdSkipBlank == AtLine /\ IsBlank(Cur) /\ Advance

\* if line.startswith('- [ ]') or line.startswith('[ ]')
MdChecklist == AtLine /\ ~IsBlank(Cur) /\ IsChecklist(Cur) /\ Advance

\* elif line.startswith('### ')
MdHeading ==
    AtLine /\ ~IsBlank(Cur) /\ ~IsChecklist(Cur) /\ IsHeading(Cur) /\ Advance

\* elif line.startswith('- '): control enters the inner while
MdBulletEnter ==
    /\ AtLine /\ ~IsBlank(Cur) /\ ~IsChecklist(Cur) /\ ~IsHeading(Cur)
    /\ IsBulletStart(Cur)
    /\ Advance

\* one iteration of the inner while
MdBulletItem ==
    /\ mpc = "loop" /\ inRun
    /\ i <= Len(lines) /\ InRunCond(Cur)
    /\ Advance

\* the inner while condition is false: back to the outer loop
MdBulletExit ==
    /\ mpc = "loop" /\ inRun
    /\ ~(i <= Len(lines) /\ InRunCond(Cur))
    /\ Advance

\* else: paragraph
MdParagraph ==
    /\ AtLine /\ ~IsBlank(Cur) /\ ~IsChecklist(Cur) /\ ~IsHeading(Cur)
    /\ ~IsBulletStart(Cur)
    /\ Advance

\* while i < len(lines) is false: return blocks
MdReturn ==
    /\ mpc = "loop" /\ ~inRun /\ i > Len(lines)
    /\ mpc' = "done"
    /\ UNCHANGED <<md, lines, i, out, inRun, trvars, nvars, cvars, pvars>>

NextMd ==
    \/ MdSkipBlank
    \/ MdChecklist
    \/ MdHeading
    \/ MdBulletEnter
    \/ MdBulletItem
    \/ MdBulletExit
    \/ MdParagraph
    \/ MdReturn

SpecMd == InitMd /\ [][NextMd]_vars

(***************************************************************************)
(* Claims about markdown_to_notion_blocks.                                 *)
(***************************************************************************)
Done == mpc = "done"

\* what the claims call a line kind, read off the trimmed line itself
BeginsWith(s, p) == Len(s) >= Len(p) /\ \A k \in 1..Len(p) : s[k] = p[k]
Trimmed(k) == Strip(lines[k])
NonBlankLine(k) == Trimmed(k) # <<>>
ChecklistLine(k) == BeginsWith(Trimmed(k), DashBox) \/ BeginsWith(Trimmed(k), Box)
PureBulletLine(k) == BeginsWith(Trimmed(k), Dash) /\ ~ChecklistLine(k)

\* the indices of the non-blank lines among lines[1..n], ascending
RECURSIVE NonBlankIdx(_)
NonBlankIdx(n) ==
    IF n = 0 THEN <<>>
    ELSE IF NonBlankLine(n) THEN Append(NonBlankIdx(n - 1), n)
         ELSE NonBlankIdx(n - 1)

LineOf(o) == [k \in 1..Len(o) |-> o[k].line]

\* C1: when the translator returns, its blocks correspond one to one, in order,
\* to the non-blank lines of the input: block k was appended for the k-th
\* non-blank line (none dropped, duplicated or reordered); while it runs, the
\* same holds of the lines already passed.
C1_OneBlockPerNonBlankLine ==
    /\ LineOf(out) = NonBlankIdx(i - 1)
    /\ Done => LineOf(out) = NonBlankIdx(Len(lines))

\* C1 witness: a finished translation of an input with a blank line between
\* non-blank ones and a bullet run of two lines.
C1_Witness ==
    /\ Done
    /\ Len(out) >= 3
    /\ \E k \in 2..Len(lines) - 1 : ~NonBlankLine(k)
    /\ \E k \in 1..Len(out) - 1 :
          /\ out[k].block.type = "bulleted_list_item"
          /\ out[k + 1].block.type = "bulleted_list_item"

\* C2: every block appended for a line that begins (trimmed) with '- [ ]' or
\* '[ ]' is a to_do with checked = FALSE, never a bulleted_list_item; and at
\* the end every such line has its block.
C2_ChecklistPrecedence ==
    /\ \A k \in 1..Len(out) :
          ChecklistLine(out[k].line) =>
              /\ out[k].block.type = "to_do"
              /\ out[k].block.checked = FALSE
    /\ Done => \A n \in 1..Len(lines) :
                  ChecklistLine(n) => \E k \in 1..Len(out) : out[k].line = n

\* C2 witness: a '- [ ]' line met while a bullet run was being consumed (the
\* block before it is a bullet of the previous line) and a bare '[ ]' line,
\* both translated to to_do.
C2_Witness ==
    /\ Done
    /\ \E k \in 2..Len(out) :
          /\ BeginsWith(Trimmed(out[k].line), DashBox)
          /\ out[k].block.type = "to_do"
          /\ out[k - 1].block.type = "bulleted_list_item"
          /\ out[k - 1].line = out[k].line - 1
    /\ \E k \in 1..Len(out) :
          /\ BeginsWith(Trimmed(out[k].line), Box)
          /\ out[k].block.type = "to_do"

\* the blocks of the specification's examples
ExampleRunBlocks ==
    <<[type |-> "bulleted_list_item", content |-> Txt("a")],
      [type |-> "bulleted_list_item", content |-> Txt("b")],
      [type |-> "heading_2", content |-> Txt("C")],
      [type |-> "bulleted_list_item", content |-> Txt("d")]>>

\* C3: a bullet run consumes only lines that start with '- ' and are not
\* checklist lines: a block is a bulleted_list_item exactly when its line is
\* such a line; the line that ends a run has no block while the run is open
\* (it is not consumed by the run) and gets the block of its own kind once
\* classified; '- a\n- b\n### C\n- d' gives Bullet(a), Bullet(b), Heading(C),
\* Bullet(d).
C3_BulletRunTermination ==
    /\ \A k \in 1..Len(out) :
          out[k].block.type = "bulleted_list_item" <=> PureBulletLine(out[k].line)
    /\ (inRun /\ i <= Len(lines) /\ ~PureBulletLine(i)) =>
          \A k \in 1..Len(out) : out[k].line < i
    /\ \A k \in 1..Len(out) :
          (~PureBulletLine(out[k].line) /\ ~ChecklistLine(out[k].line)) =>
              out[k].block.type =
                  IF BeginsWith(Trimmed(out[k].line), Hashes)
                  THEN "heading_2" ELSE "paragraph"
    /\ (Done /\ md = Join(ExampleRun)) => BlocksOf(out) = ExampleRunBlocks

\* C3 witness: the example has been translated, and its heading ended a run.
C3_Witness ==
    /\ Done
    /\ md = Join(ExampleRun)
    /\ Len(out) = 4
    /\ out[3].block.type = "heading_2"

\* C4: the blocks returned are those returned for the same input with one to
\* MaxBlank blank lines (empty or whitespace-only) inserted at any line
\* position.
BlankLines == {<<>>, <<" ", "\t">>}

RECURSIVE Blanks(_, _)
Blanks(b, n) == IF n = 0 THEN <<>> ELSE <<b>> \o Blanks(b, n - 1)

WithBlanks(ls, pos, b, n) ==
    SubSeq(ls, 1, pos) \o Blanks(b, n) \o SubSeq(ls, pos + 1, Len(ls))

C4_BlankLineIdempotence ==
    Done =>
        \A pos \in 0..Len(lines), b \in BlankLines, n \in 1..MaxBlank :
            markdown_to_notion_blocks(Join(WithBlanks(lines, pos, b, n)))
                = BlocksOf(out)

\* C4 witness: a finished translation with a bullet run of two lines, so that
\* one insertion position lies inside a run.
C4_Witness ==
    /\ Done
    /\ \E k \in 1..Len(out) - 1 :
          /\ out[k].block.type = "bulleted_list_item"
          /\ out[k + 1].block.type = "bulleted_list_item"
          /\ out[k + 1].line = out[k].line + 1

(***************************************************************************)
(* transcribe_audio, transcribe_audio_chunk and the head of                *)
(* process_audio_service (up to the summary call).                         *)
(***************************************************************************)
max_size == 24 * 1024 * 1024

\* file sizes just below the ceiling, and at or just above its multiples
FileSizes ==
    {max_size - 1} \cup {f * max_size + d : f \in 1..MaxSizeFactor, d \in {0, 1}}

Durations == 0..MaxDuration

\* what the remote service may answer in the 'text' field
Texts == {<<>>, <<"a">>, <<" ", "b">>}

MdIdle ==
    /\ md = <<>> /\ lines = <<>> /\ i = 1 /\ out = <<>>
    /\ inRun = FALSE /\ mpc = "idle"

inputs == <<api_key_set, source, decodable, file_size, duration_ms>>

\* the state of a request apart from its position and the requests sent
trvars_but_spc ==
    <<inputs, tpc, cpc, chunk_size_ms, chunks, ci, full_transcript, temp_files,
      ri, disk, result, calls, logged>>

InitTr ==
    /\ MdIdle /\ NtIdle /\ CliIdle /\ TwoIdle
    /\ api_key_set \in BOOLEAN
    /\ source \in {"ok", "missing", "unreadable"}
    /\ decodable \in BOOLEAN
    /\ file_size \in FileSizes
    /\ duration_ms \in Durations
    /\ spc = "start" /\ tpc = "idle" /\ cpc = "idle"
    /\ chunk_size_ms = 0 /\ chunks = <<>> /\ ci = 0
    /\ full_transcript = <<>> /\ temp_files = <<>> /\ ri = 0
    /\ disk = {} /\ result = <<>> /\ calls = <<>> /\ net = <<>>
    /\ logged = 0

\* the path handed to transcribe_audio_chunk
SourcePath == [file |-> "source", ord |-> 0]
ChunkPath(k) == [file |-> "chunk", ord |-> k]

\* if file_size < max_size
DirectUpTo(size) == size <= max_size
TakesDirectPath(size) == size < max_size

\* int((max_size / file_size) * duration_ms); on the sizes and durations of
\* the model the double arithmetic gives the exact floor
ChunkSize(size, dur) == (max_size * dur) \div size

Min(a, b) == IF a < b THEN a ELSE b

\* audio[lo:hi] of a segment of length dur
SliceUnclipped(lo, hi, dur) == [lo |-> lo, hi |-> hi]
Slice(lo, hi, dur) == [lo |-> Min(lo, dur), hi |-> Min(hi, dur)]

\* len(range(0, dur, step)), step > 0
RangeLen(dur, step) == (dur + step - 1) \div step

\* [audio[i:i + chunk_size_ms] for i in range(0, duration_ms, chunk_size_ms)]
MakeChunks(dur, step) ==
    [k \in 1..RangeLen(dur, step) |->
        Slice((k - 1) * step, (k - 1) * step + step, dur)]

\* if transcript_chunk: full_transcript += transcript_chunk + " "
AccumulateAlways(acc, text) == acc \o text \o <<" ">>
AccumulateFront(acc, text) == IF text # <<>> THEN text \o <<" ">> \o acc ELSE acc
Accumulate(acc, text) == IF text # <<>> THEN acc \o text \o <<" ">> ELSE acc

\* what transcribe_audio_chunk does on an error: log it and return ""
ErrorExit == [raised |-> TRUE, text |-> <<>>, ok |-> FALSE]
ErrorReturn == [raised |-> FALSE, text |-> <<>>, ok |-> FALSE]

\* return result.get('text', '')
TextReturn(t) == [raised |-> FALSE, text |-> t, ok |-> TRUE]

Target == IF tpc = "direct" THEN SourcePath ELSE ChunkPath(ci)

\* process_audio_service: get_env("OPENAI_API_KEY", required=True), then the
\* upload is written to a temporary file and transcribe_audio is called
SrvStart ==
    /\ spc = "start"
    /\ IF api_key_set
       THEN spc' = "transcribing" /\ tpc' = "start"
       ELSE spc' = "raised" /\ tpc' = tpc
    /\ UNCHANGED <<mdvars, pvars, cvars, nvars, inputs, cpc, chunk_size_ms, chunks, ci,
                   full_transcript, temp_files, ri, disk, result, calls, net,
                   logged>>

\* os.path.getsize raises for a missing file
TrSizeError ==
    /\ tpc = "start" /\ source = "missing"
    /\ tpc' = "raised"
    /\ UNCHANGED <<mdvars, pvars, cvars, nvars, inputs, spc, cpc, chunk_size_ms, chunks, ci,
                   full_transcript, temp_files, ri, disk, result, calls, net,
                   logged>>

\* return transcribe_audio_chunk(audio_path, api_key, language)
TrDirect ==
    /\ tpc = "start" /\ source # "missing"
    /\ TakesDirectPath(file_size)
    /\ tpc' = "direct" /\ cpc' = "open"
    /\ calls' = Append(calls, [ev |-> "call", path |-> SourcePath])
    /\ UNCHANGED <<mdvars, pvars, cvars, nvars, inputs, spc, chunk_size_ms, chunks, ci,
                   full_transcript, temp_files, ri, disk, result, net, logged>>

\* AudioSegment.from_file raises
TrDecodeError ==
    /\ tpc = "start" /\ source # "missing"
    /\ ~TakesDirectPath(file_size)
    /\ ~(source = "ok" /\ decodable)
    /\ tpc' = "raised"
    /\ UNCHANGED <<mdvars, pvars, cvars, nvars, inputs, spc, cpc, chunk_size_ms, chunks, ci,
                   full_transcript, temp_files, ri, disk, result, calls, net,
                   logged>>

\* range(0, duration_ms, 0) raises ValueError
TrZeroStep ==
    /\ tpc = "start" /\ source = "ok" /\ decodable
    /\ ~TakesDirectPath(file_size)
    /\ ChunkSize(file_size, duration_ms) = 0
    /\ chunk_size_ms' = 0
    /\ tpc' = "raised"
    /\ UNCHANGED <<mdvars, pvars, cvars, nvars, inputs, spc, cpc, chunks, ci, full_transcript,
                   temp_files, ri, disk, result, calls, net, logged>>

\* the audio is cut into chunks
TrSplit ==
    /\ tpc = "start" /\ source = "ok" /\ decodable
    /\ ~TakesDirectPath(file_size)
    /\ ChunkSize(file_size, duration_ms) > 0
    /\ chunk_size_ms' = ChunkSize(file_size, duration_ms)
    /\ chunks' = MakeChunks(duration_ms, ChunkSize(file_size, duration_ms))
    /\ ci' = 0
    /\ tpc' = "loop"
    /\ UNCHANGED <<mdvars, pvars, cvars, nvars, inputs, spc, cpc, full_transcript, temp_files, ri,
                   disk, result, calls, net, logged>>

\* chunk.export(chunk_path); temp_files.append(chunk_path);
\* transcribe_audio_chunk(chunk_path, ...) is called
TrExport ==
    /\ tpc = "loop" /\ ci < Len(chunks)
    /\ disk' = disk \cup {ci}
    /\ temp_files' = Append(temp_files, ci)
    /\ tpc' = "chunk" /\ cpc' = "open"
    /\ calls' = Append(calls, [ev |-> "call", path |-> ChunkPath(ci)])
    /\ UNCHANGED <<mdvars, pvars, cvars, nvars, inputs, spc, chunk_size_ms, chunks, ci,
                   full_transcript, ri, result, net, logged>>

\* transcribe_audio_chunk returns r (or raises) to transcribe_audio
Returned(r) ==
    /\ cpc' = "idle"
    /\ calls' = Append(calls, [ev |-> "ret", path |-> Target,
                               text |-> r.text, ok |-> r.ok])
    /\ IF r.raised
       THEN tpc' = "raised" /\ UNCHANGED <<result, full_transcript, ci>>
       ELSE IF tpc = "direct"
       THEN tpc' = "done" /\ result' = r.text
            /\ UNCHANGED <<full_transcript, ci>>
       ELSE /\ full_transcript' = Accumulate(full_transcript, r.text)
            /\ ci' = ci + 1
            /\ tpc' = "loop"
            /\ UNCHANGED result
    /\ UNCHANGED <<mdvars, pvars, cvars, nvars, inputs, spc, chunk_size_ms, chunks, temp_files, ri,
                   disk, logged>>

\* open(audio_path, 'rb') fails: an unreadable source; a chunk file may be
\* unreadable whatever wrote it
ChunkOpenFail ==
    /\ cpc = "open"
    /\ tpc = "direct" => source = "unreadable"
    /\ Returned(ErrorReturn)
    /\ UNCHANGED net

\* the file is read and the request is sent
ChunkRequest ==
    /\ cpc = "open"
    /\ tpc = "direct" => source = "ok"
    /\ cpc' = "wait"
    /\ net' = Append(net, "transcription")
    /\ UNCHANGED <<mdvars, pvars, cvars, nvars, inputs, spc, tpc, chunk_size_ms, chunks, ci,
                   full_transcript, temp_files, ri, disk, result, calls,
                   logged>>

\* the response is read
ChunkResponse ==
    /\ cpc = "wait"
    /\ \E t \in Texts : Returned(TextReturn(t))
    /\ UNCHANGED net

\* except urllib.error.HTTPError
ChunkHTTPError ==
    /\ cpc = "wait"
    /\ Returned(ErrorReturn)
    /\ UNCHANGED net

\* except Exception: timeout, network error, a body that is not JSON
ChunkException ==
    /\ cpc = "wait"
    /\ Returned(ErrorReturn)
    /\ UNCHANGED net

\* the for loop over chunks is exhausted
TrLoopEnd ==
    /\ tpc = "loop" /\ ci = Len(chunks)
    /\ tpc' = "cleanup" /\ ri' = 0
    /\ UNCHANGED <<mdvars, pvars, cvars, nvars, inputs, spc, cpc, chunk_size_ms, chunks, ci,
                   full_transcript, temp_files, disk, result, calls, net,
                   logged>>

\* os.remove(temp_file)
TrRemove ==
    /\ tpc = "cleanup" /\ ri < Len(temp_files)
    /\ disk' = disk \ {temp_files[ri + 1]}
    /\ ri' = ri + 1
    /\ UNCHANGED <<mdvars, pvars, cvars, nvars, inputs, spc, tpc, cpc, chunk_size_ms, chunks, ci,
                   full_transcript, temp_files, result, calls, net, logged>>

\* os.remove raising out of transcribe_audio
TrRemoveErrorRaises ==
    /\ tpc = "cleanup" /\ ri < Len(temp_files)
    /\ tpc' = "raised"
    /\ UNCHANGED <<mdvars, pvars, cvars, nvars, inputs, spc, cpc, chunk_size_ms, chunks, ci,
                   full_transcript, temp_files, ri, disk, result, calls, net,
                   logged>>

\* os.remove raises OSError: logged, the loop goes on
TrRemoveError ==
    /\ tpc = "cleanup" /\ ri < Len(temp_files)
    /\ logged' = logged + 1
    /\ ri' = ri + 1
    /\ UNCHANGED <<mdvars, pvars, cvars, nvars, inputs, spc, tpc, cpc, chunk_size_ms, chunks, ci,
                   full_transcript, temp_files, disk, result, calls, net>>

\* return full_transcript.strip()
TrReturn ==
    /\ tpc = "cleanup" /\ ri = Len(temp_files)
    /\ result' = Strip(full_transcript)
    /\ tpc' = "done"
    /\ UNCHANGED <<mdvars, pvars, cvars, nvars, inputs, spc, cpc, chunk_size_ms, chunks, ci,
                   full_transcript, temp_files, ri, disk, calls, net, logged>>

\* an exception of transcribe_audio leaves process_audio_service
SrvTranscribeRaised ==
    /\ spc = "transcribing" /\ tpc = "raised"
    /\ spc' = "raised"
    /\ UNCHANGED <<mdvars, pvars, cvars, nvars, inputs, tpc, cpc, chunk_size_ms, chunks, ci,
                   full_transcript, temp_files, ri, disk, result, calls, net,
                   logged>>

\* transcript = transcribe_audio(...); generate_summary_with_prompts sends
\* its request
SrvSummaryRequest ==
    /\ spc = "transcribing" /\ tpc = "done"
    /\ net' = Append(net, "summary")
    /\ spc' = "summary_wait"
    /\ UNCHANGED <<mdvars, pvars, cvars, nvars, inputs, tpc, cpc, chunk_size_ms, chunks, ci,
                   full_transcript, temp_files, ri, disk, result, calls,
                   logged>>

\* return summary, total_tokens
SrvSummaryOk ==
    /\ spc = "summary_wait"
    /\ spc' = "summarized"
    /\ UNCHANGED <<mdvars, pvars, cvars, nvars, inputs, tpc, cpc, chunk_size_ms, chunks, ci,
                   full_transcript, temp_files, ri, disk, result, calls, net,
                   logged>>

\* every except clause of generate_summary_with_prompts: exit(1)
SrvSummaryError ==
    /\ spc = "summary_wait"
    /\ spc' = "exited"
    /\ UNCHANGED <<mdvars, pvars, cvars, nvars, inputs, tpc, cpc, chunk_size_ms, chunks, ci,
                   full_transcript, temp_files, ri, disk, result, calls, net,
                   logged>>

\* the payloads of process_audio_service; transcript_success is
\* transcript is not None and len(transcript) > 0
Payload(sent, err) ==
    [returned |-> TRUE, transcript_success |-> result # <<>>,
     notion_sent |-> sent, error |-> err]

\* return JSONResponse({...})
Respond(sent, err) ==
    /\ response' = Payload(sent, err)
    /\ spc' = "responded"
    /\ UNCHANGED <<mdvars, pvars, cvars, trvars_but_spc, token_set, schema, net>>

\* no schema was uploaded: elif AppConfig.notion_json reads an attribute the
\* class AppConfig does not have
SrvSchemaAbsent ==
    /\ spc = "summarized" /\ schema = "none"
    /\ spc' = "raised"
    /\ UNCHANGED <<mdvars, pvars, cvars, trvars_but_spc, nvars, net>>

\* json.loads of the upload raises
SrvSchemaInvalid ==
    /\ spc = "summarized" /\ schema = "invalid"
    /\ Respond(FALSE, "Invalid Notion schema file")

\* if notion_schema_dict: is false for an empty object
SrvSchemaEmpty ==
    /\ spc = "summarized" /\ schema = "empty"
    /\ Respond(FALSE, "none")

\* neither 'id' nor 'database_id'
SrvNoDbId ==
    /\ spc = "summarized" /\ schema = "no_id"
    /\ Respond(FALSE, "Notion DB id not found in schema")

\* send_to_notion raises before its request: the id is not a string and
\* notion_db_id.replace fails; except Exception catches it
SrvSendRaised ==
    /\ spc = "summarized" /\ schema = "id_not_text"
    /\ Respond(FALSE, "Notion send failed")

\* notion_token = get_env('NOTION_TOKEN', default=None); send_to_notion
\* builds the page and sends it, whatever the token
SrvPublishRequest ==
    /\ spc = "summarized" /\ schema = "ok"
    /\ net' = Append(net, "publish")
    /\ spc' = "publish_wait"
    /\ UNCHANGED <<mdvars, pvars, cvars, trvars_but_spc, nvars>>

\* the page was accepted: notion_sent = True and the final return
SrvPublishOk ==
    /\ spc = "publish_wait"
    /\ Respond(TRUE, "none")

\* both except clauses of send_to_notion: exit(1); SystemExit is not an
\* Exception, so process_audio_service does not catch it
SrvPublishError ==
    /\ spc = "publish_wait"
    /\ spc' = "exited"
    /\ UNCHANGED <<mdvars, pvars, cvars, trvars_but_spc, nvars, net>>

NextTr ==
    \/ SrvStart
    \/ TrSizeError
    \/ TrDirect
    \/ TrDecodeError
    \/ TrZeroStep
    \/ TrSplit
    \/ TrExport
    \/ ChunkOpenFail
    \/ ChunkRequest
    \/ ChunkResponse
    \/ ChunkHTTPError
    \/ ChunkException
    \/ TrLoopEnd
    \/ TrRemove
    \/ TrRemoveError
    \/ TrReturn
    \/ SrvTranscribeRaised
    \/ SrvSummaryRequest
    \/ SrvSummaryOk
    \/ SrvSummaryError

SpecTr == InitTr /\ [][NextTr]_vars

\* the uploads the code tells apart: none, not JSON, {}, an object without
\* 'id' and 'database_id', an object whose id is not a string, a usable one
Schemas == {"none", "invalid", "empty", "no_id", "id_not_text", "ok"}

\* audio just below the ceiling and just above it
SrvSizes == {max_size - 1, max_size + 1}
SrvDurations == {0, MaxDuration}

\* a request to /process-audio with its environment
InitSrv ==
    /\ MdIdle /\ CliIdle /\ TwoIdle
    /\ api_key_set \in BOOLEAN
    /\ token_set \in BOOLEAN
    /\ schema \in Schemas
    /\ source \in {"ok", "missing", "unreadable"}
    /\ decodable \in BOOLEAN
    /\ file_size \in SrvSizes
    /\ duration_ms \in SrvDurations
    /\ response = NoResponse
    /\ spc = "start" /\ tpc = "idle" /\ cpc = "idle"
    /\ chunk_size_ms = 0 /\ chunks = <<>> /\ ci = 0
    /\ full_transcript = <<>> /\ temp_files = <<>> /\ ri = 0
    /\ disk = {} /\ result = <<>> /\ calls = <<>> /\ net = <<>>
    /\ logged = 0

NextSrv ==
    \/ NextTr
    \/ SrvSchemaAbsent
    \/ SrvSchemaInvalid
    \/ SrvSchemaEmpty
    \/ SrvNoDbId
    \/ SrvSendRaised
    \/ SrvPublishRequest
    \/ SrvPublishOk
    \/ SrvPublishError

SpecSrv == InitSrv /\ [][NextSrv]_vars

(***************************************************************************)
(* The command-line program: main, with its own transcribe_audio and       *)
(* generate_summary_with_prompts, which show a live timer while they wait. *)
(***************************************************************************)
\* --notion is given
NotionMode == schema # "none"

InitCli ==
    /\ MdIdle /\ TwoIdle
    /\ api_key_set \in BOOLEAN
    /\ token_set \in BOOLEAN
    /\ schema \in Schemas
    /\ source \in {"ok", "missing", "unreadable"}
    /\ decodable = TRUE /\ file_size = 1 /\ duration_ms = 0
    /\ response = NoResponse
    /\ spc = "idle" /\ tpc = "idle" /\ cpc = "idle"
    /\ chunk_size_ms = 0 /\ chunks = <<>> /\ ci = 0
    /\ full_transcript = <<>> /\ temp_files = <<>> /\ ri = 0
    /\ disk = {} /\ result = <<>> /\ calls = <<>> /\ net = <<>>
    /\ logged = 0
    /\ main_pc = "start" /\ timers = <<>>

\* what a step of main leaves alone besides its position, the requests, the
\* timers and the transcript
cli_rest ==
    <<mdvars, pvars, nvars, inputs, spc, tpc, cpc, chunk_size_ms, chunks, ci,
      full_transcript, temp_files, ri, disk, calls, logged>>

\* main moves to position p and nothing else changes
Goto(p) == main_pc' = p /\ UNCHANGED <<cli_rest, result, net, timers>>

\* stop_event, _ = _start_live_timer(label), then urlopen sends the request
StartCall(label, req, p) ==
    /\ timers' = Append(timers, [label |-> label, sets |-> 0])
    /\ net' = Append(net, req)
    /\ main_pc' = p
    /\ UNCHANGED <<cli_rest, result>>

\* stop_event.set() on the timer started last
SetLast ==
    timers' = [timers EXCEPT ![Len(timers)].sets = @ + 1]

\* if not api_key: sys.exit(1)
CliKeyCheck ==
    /\ main_pc = "start"
    /\ Goto(IF api_key_set THEN "keyed" ELSE "exited")

\* load_custom_prompts returns
CliPromptsLoaded == main_pc = "keyed" /\ Goto("loaded")

\* load_custom_prompts: the prompt file is unreadable or not JSON
CliPromptsError == main_pc = "keyed" /\ Goto("exited")

\* else: notion_token = os.getenv('NOTION_TOKEN'); if not notion_token:
\* sys.exit(1); without --notion the token is not read
CliTokenCheck ==
    /\ main_pc = "loaded"
    /\ Goto(IF NotionMode /\ ~token_set THEN "exited" ELSE "ready")

\* transcribe_audio: the audio file cannot be read
CliReadError ==
    /\ main_pc = "ready" /\ source # "ok"
    /\ Goto("exited")

\* transcribe_audio: the timer is started and the request sent
CliTranscribeRequest ==
    /\ main_pc = "ready" /\ source = "ok"
    /\ StartCall("Transcribing", "transcription", "transcribe_wait")

\* transcript = result.get('text', ''); stop_event.set(); return transcript
CliTranscribeOk ==
    /\ main_pc = "transcribe_wait"
    /\ \E t \in Texts : result' = t
    /\ SetLast
    /\ main_pc' = "transcribed"
    /\ UNCHANGED <<cli_rest, net>>

\* except HTTPError / socket.timeout / URLError / Exception: sys.exit(1)
CliTranscribeError ==
    /\ main_pc = "transcribe_wait"
    /\ Goto("exited")

\* generate_summary_with_prompts: the timer is started and the request sent
CliSummaryRequest ==
    /\ main_pc = "transcribed"
    /\ StartCall("Generating", "summary", "summary_wait")

\* stop_event.set(); return summary, total_tokens
CliSummaryOk ==
    /\ main_pc = "summary_wait"
    /\ SetLast
    /\ main_pc' = "summarized"
    /\ UNCHANGED <<cli_rest, result, net>>

\* except HTTPError / socket.timeout / URLError / Exception: sys.exit(1)
CliSummaryError ==
    /\ main_pc = "summary_wait"
    /\ Goto("exited")

\* save_summary writes the file
CliSave ==
    /\ main_pc = "summarized" /\ ~NotionMode
    /\ Goto("completed")

\* save_summary: the file cannot be written
CliSaveError ==
    /\ main_pc = "summarized" /\ ~NotionMode
    /\ Goto("exited")

\* the schema file is unreadable or not JSON
CliSchemaError ==
    /\ main_pc = "summarized" /\ schema = "invalid"
    /\ Goto("exited")

\* if not db_id: sys.exit(1)
CliNoDbId ==
    /\ main_pc = "summarized" /\ schema \in {"empty", "no_id"}
    /\ Goto("exited")

\* db_id.replace('-', '') on an id that is not a string: AttributeError
CliPayloadRaises ==
    /\ main_pc = "summarized" /\ schema = "id_not_text"
    /\ Goto("raised")

\* the page is built and sent
CliPublishRequest ==
    /\ main_pc = "summarized" /\ schema = "ok"
    /\ net' = Append(net, "publish")
    /\ main_pc' = "publish_wait"
    /\ UNCHANGED <<cli_rest, result, timers>>

\* resp.read()
CliPublishOk == main_pc = "publish_wait" /\ Goto("completed")

\* except HTTPError / Exception: sys.exit(1)
CliPublishError == main_pc = "publish_wait" /\ Goto("exited")

NextCli ==
    \/ CliKeyCheck
    \/ CliPromptsLoaded
    \/ CliPromptsError
    \/ CliTokenCheck
    \/ CliReadError
    \/ CliTranscribeRequest
    \/ CliTranscribeOk
    \/ CliTranscribeError
    \/ CliSummaryRequest
    \/ CliSummaryOk
    \/ CliSummaryError
    \/ CliSave
    \/ CliSaveError
    \/ CliSchemaError
    \/ CliNoDbId
    \/ CliPayloadRaises
    \/ CliPublishRequest
    \/ CliPublishOk
    \/ CliPublishError

SpecCli == InitCli /\ [][NextCli]_vars

(***************************************************************************)
(* Claims about transcribe_audio and the request around it.                *)
(***************************************************************************)
Ceiling == 24 * 1024 * 1024

Chunked == file_size >= Ceiling /\ tpc \in {"loop", "chunk", "cleanup", "done"}

IsRet(c) == c.ev = "ret"
IsCall(c) == c.ev = "call"
Rets == SelectSeq(calls, IsRet)
CallsMade == SelectSeq(calls, IsCall)
IsTranscription(r) == r = "transcription"

\* what the returns so far add up to when every non-empty text is followed
\* by one space and an empty text adds nothing
RECURSIVE StitchTo(_)
StitchTo(n) ==
    IF n = 0 THEN <<>>
    ELSE StitchTo(n - 1) \o
         (IF Rets[n].text = <<>> THEN <<>> ELSE Rets[n].text \o <<" ">>)

\* what they add up to when every text, empty or not, is preceded by one space
RECURSIVE SpacedTo(_)
SpacedTo(n) ==
    IF n = 0 THEN <<>> ELSE SpacedTo(n - 1) \o <<" ">> \o Rets[n].text

\* C5: a file below 24 MiB is transcribed by exactly one call, on the whole
\* file, with no chunk and no chunk file, and the text of that call is returned
\* as it is; a file of 24 MiB or more is never handed over whole, and when
\* transcribe_audio returns it has gone through the chunk loop.
C5_DirectPathPassThrough ==
    /\ file_size < Ceiling =>
          /\ disk = {} /\ temp_files = <<>> /\ chunks = <<>>
          /\ Len(CallsMade) <= 1
          /\ \A j \in 1..Len(calls) : calls[j].path = SourcePath
          /\ tpc = "done" =>
                /\ Len(calls) = 2
                /\ IsCall(calls[1]) /\ IsRet(calls[2])
                /\ result = calls[2].text
    /\ file_size >= Ceiling =>
          /\ \A j \in 1..Len(calls) : calls[j].path.file = "chunk"
          /\ tpc = "done" =>
                /\ Len(temp_files) = Len(chunks)
                /\ Len(CallsMade) = Len(chunks)

\* C5 witness: a direct call has returned a text with a leading space, and it
\* is the result.
C5_Witness ==
    /\ tpc = "done" /\ file_size < Ceiling
    /\ result = <<" ", "b">>
    /\ net = <<"transcription">>

\* C6: once the audio is cut with a chunk duration C > 0, the chunks are the
\* intervals [k*C, min((k+1)*C, D)) for k = 0, 1, ... in this order: each one
\* non-empty, the first starting at 0, each starting where the previous one
\* ends, the last ending at D and no longer than C, and every millisecond of
\* [0, D) lying in exactly one of them.
C6_ChunkCoverage ==
    chunk_size_ms > 0 =>
        LET C == chunk_size_ms
            D == duration_ms
            n == Len(chunks)
        IN  /\ D > 0 /\ n >= 1
            /\ \A k \in 1..n :
                  /\ chunks[k].lo = (k - 1) * C
                  /\ chunks[k].hi = (IF k * C < D THEN k * C ELSE D)
                  /\ chunks[k].lo < chunks[k].hi
            /\ chunks[1].lo = 0
            /\ chunks[n].hi = D
            /\ chunks[n].hi - chunks[n].lo <= C
            /\ \A k \in 1..n - 1 : chunks[k].hi = chunks[k + 1].lo
            /\ \A t \in 0..D - 1 :
                  Cardinality({k \in 1..n :
                      chunks[k].lo <= t /\ t < chunks[k].hi}) = 1

\* C6 witness: a cut whose last chunk is shorter than the others.
C6_Witness ==
    /\ chunk_size_ms = 2 /\ duration_ms = 3
    /\ Len(chunks) = 2
    /\ chunks[2].hi - chunks[2].lo = 1

\* C7: in the chunked path a failed chunk call returns the empty text and
\* nothing else happens to the run: transcribe_audio raises only before the
\* first call, every chunk has been called once the loop is left (one call and
\* one return per chunk), and the accumulator holds the texts of the other
\* chunks.
C7_ChunkedResilience ==
    /\ \A j \in 1..Len(calls) :
          (IsRet(calls[j]) /\ ~calls[j].ok) => calls[j].text = <<>>
    /\ tpc = "raised" => calls = <<>>
    /\ (Chunked /\ tpc \in {"cleanup", "done"}) =>
          /\ Len(CallsMade) = Len(chunks)
          /\ Len(Rets) = Len(chunks)
          /\ \A k \in 1..Len(chunks) : CallsMade[k].path = ChunkPath(k - 1)
          /\ Len(full_transcript) = Len(StitchTo(Len(chunks)))
    /\ (Chunked /\ tpc = "done") =>
          \A k \in 1..Len(Rets) :
              (Rets[k].ok /\ Strip(Rets[k].text) # <<>>) => result # <<>>

\* C7 witness: three chunks, the second failed, the third returned a text, and
\* transcribe_audio returned a transcript.
C7_Witness ==
    /\ Chunked /\ tpc = "done"
    /\ Len(chunks) = 3
    /\ ~Rets[2].ok
    /\ Rets[3].ok /\ Rets[3].text = <<"a">>
    /\ result # <<>>

\* C8: when the direct (non-chunked) call of transcribe_audio_chunk has failed,
\* the run has failed: no summary request is ever issued.
C8_DirectFailureFatal ==
    (file_size < Ceiling /\ \E j \in 1..Len(calls) :
                               IsRet(calls[j]) /\ ~calls[j].ok) =>
        /\ \A n \in 1..Len(net) : net[n] # "summary"
        /\ spc \notin {"summary_wait", "summarized"}

\* C9, as claimed: the chunked result is the trimmed accumulation of one space
\* plus the text of every chunk, the empty text for a failed chunk.
C9_SpacePerChunk ==
    (Chunked /\ tpc = "done") => result = Strip(SpacedTo(Len(Rets)))

\* C9, as amended: the chunked result is the trimmed accumulation, in ordinal
\* order, of every non-empty chunk text followed by one space; a failed or
\* empty chunk adds nothing.  With chunk 2 of 3 failed the result is
\* chunk1-text + " " + chunk3-text + " ", trimmed, when both texts are
\* non-empty.
C9_Stitching ==
    (Chunked /\ tpc = "done") =>
        /\ result = Strip(StitchTo(Len(Rets)))
        /\ (Len(Rets) = 3 /\ ~Rets[2].ok
              /\ Rets[1].text # <<>> /\ Rets[3].text # <<>>) =>
              result = Strip(Rets[1].text \o <<" ">> \o Rets[3].text \o <<" ">>)

\* C9 witness: chunk 2 of 3 failed between two chunks that returned text.
C9_Witness ==
    /\ Chunked /\ tpc = "done"
    /\ Len(Rets) = 3
    /\ ~Rets[2].ok
    /\ Rets[1].text = <<"a">> /\ Rets[3].text = <<" ", "b">>
    /\ result = <<"a", " ", " ", "b">>

\* C10: in the chunked path the calls and returns alternate, chunk 0 first and
\* each next chunk after the return of the one before, so at most one call is
\* open; transcription requests are sent only inside a call; and the
\* accumulator is at every moment the texts returned so far in that order.
C10_SequentialOrder ==
    file_size >= Ceiling =>
        /\ \A j \in 1..Len(calls) :
              /\ calls[j].path = ChunkPath((j - 1) \div 2)
              /\ calls[j].ev = (IF j % 2 = 1 THEN "call" ELSE "ret")
        /\ Len(calls) % 2 = 1 <=> cpc # "idle"
        /\ Len(SelectSeq(net, IsTranscription)) <= Len(CallsMade)
        /\ full_transcript = StitchTo(Len(Rets))
        /\ Len(Rets) = ci

\* C10 witness: two chunks returned different texts, stitched in their order.
C10_Witness ==
    /\ Chunked /\ tpc = "done"
    /\ Len(chunks) = 2
    /\ Rets[1].text = <<" ", "b">> /\ Rets[2].text = <<"a">>
    /\ result = <<"b", " ", "a">>

\* C11: at every point of a run at most one chunk file exists: the file of a
\* chunk is removed once its call has returned and before the file of the next
\* chunk is written.
C11_OneChunkFileAtATime ==
    /\ Cardinality(disk) <= 1
    /\ (tpc = "loop" /\ ci < Len(chunks)) => disk = {}

\* C19: a failed removal is only logged: the cleanup loop goes on to every
\* remaining file (when transcribe_audio returns, every file of temp_files has
\* had its removal attempted, and the files left are those whose removal
\* failed), transcribe_audio never raises after a removal error, and the
\* transcript returned is the trimmed accumulation of the chunk texts whatever
\* the removals did.
C19_CleanupFailuresAbsorbed ==
    /\ logged <= ri
    /\ tpc = "raised" => (temp_files = <<>> /\ logged = 0)
    /\ tpc = "cleanup" =>
          /\ full_transcript = StitchTo(Len(Rets))
          /\ Cardinality(disk) = Len(temp_files) - (ri - logged)
    /\ (Chunked /\ tpc = "done") =>
          /\ ri = Len(temp_files)
          /\ Len(temp_files) = Len(chunks)
          /\ Cardinality(disk) = logged
          /\ result = Strip(full_transcript)
          /\ full_transcript = StitchTo(Len(Rets))

\* C19 witness: the removal of the first of three files failed, the other two
\* were removed, and the transcript was returned.
C19_Witness ==
    /\ Chunked /\ tpc = "done"
    /\ Len(temp_files) = 3
    /\ logged = 1
    /\ disk = {0}
    /\ result # <<>>

\* C20: whenever the chunked path is entered (a decodable file of 24 MiB or
\* more), the chunk duration computed is at least 1 ms and the cut does not
\* fail.
C20_ChunkDurationPositive ==
    (file_size >= Ceiling /\ source = "ok" /\ decodable
        /\ tpc \notin {"idle", "start"}) =>
        /\ chunk_size_ms >= 1
        /\ tpc # "raised"

(***************************************************************************)
(* Further claims about markdown_to_notion_blocks.                         *)
(***************************************************************************)
\* the trimmed line without its leading checklist marker
AfterMarker(l) ==
    IF BeginsWith(l, DashBox) THEN SubSeq(l, Len(DashBox) + 1, Len(l))
    ELSE SubSeq(l, Len(Box) + 1, Len(l))

\* C17: the text of a to_do block is its line with the leading marker
\* ('- [ ]' or '[ ]') removed and the rest trimmed, nothing else changed: a
\* later '[ ]' or '- [ ]' in the text is kept.
C17_ChecklistText ==
    \A k \in 1..Len(out) :
        out[k].block.type = "to_do" =>
            out[k].block.content = Strip(AfterMarker(Trimmed(out[k].line)))

\* the branch a step of the outer loop took, read off what it did
Taken ==
    IF inRun' THEN "bullet"
    ELSE IF Len(out') = Len(out) THEN "blank"
    ELSE out'[Len(out')].block.type

\* the branch the trimmed line k calls for
Expected(k) ==
    IF ~NonBlankLine(k) THEN "blank"
    ELSE IF ChecklistLine(k) THEN "to_do"
    ELSE IF BeginsWith(Trimmed(k), Hashes) THEN "heading_2"
    ELSE IF BeginsWith(Trimmed(k), Dash) THEN "bullet"
    ELSE "paragraph"

\* the inner while would consume line i
Consumable == i <= Len(lines) /\ PureBulletLine(i)

\* the inner while has consumed the line before i
ConsumedOne ==
    /\ Len(out) >= 1
    /\ out[Len(out)].line = i - 1
    /\ out[Len(out)].block.type = "bulleted_list_item"

\* a measure of what is left to do
Rank ==
    IF mpc = "done" THEN 0
    ELSE 3 * (Len(lines) + 1 - i)
         + (IF ~inRun THEN 1 ELSE IF Consumable THEN 0 ELSE 2)

\* a statement of the function is left to execute: a branch of the outer
\* loop at a line, the test of the inner loop, or the return
CanStep ==
    \/ AtLine /\ Expected(i) \in {"blank", "to_do", "heading_2", "bullet", "paragraph"}
    \/ mpc = "loop" /\ inRun
    \/ mpc = "loop" /\ ~inRun /\ i = Len(lines) + 1

\* C18: the translator terminates without raising: until it has returned a
\* statement is left to execute, every step lowers a measure that is never
\* negative, the index never goes back and every iteration of the outer loop
\* advances it by at least one (the inner loop of the bullet branch consumes
\* at least the line that entered it), and a step at a line takes the one
\* branch the line calls for: one of the four for a non-blank line, none of
\* them for a blank one.
C18_TranslatorTermination ==
    /\ [](Done \/ CanStep)
    /\ [](Rank >= 0)
    /\ [](inRun => (Consumable \/ ConsumedOne))
    /\ [][/\ Rank' < Rank
          /\ i' >= i
          /\ (~inRun /\ ~inRun' /\ ~Done') => i' = i + 1
          /\ (inRun /\ ~inRun') => ConsumedOne'
          /\ AtLine => Taken = Expected(i)]_vars

\* C18 witness: a translation that took the heading, bullet and checklist
\* branches and skipped a blank line has returned.
C18_Witness ==
    /\ Done
    /\ \E k \in 1..Len(lines) : ~NonBlankLine(k)
    /\ {"heading_2", "bulleted_list_item", "to_do"}
          \subseteq {out[k].block.type : k \in 1..Len(out)}

(***************************************************************************)
(* Claims about a request served by process_audio_service.                 *)
(***************************************************************************)
IsPublish(r) == r = "publish"
Publishes == SelectSeq(net, IsPublish)

\* the direct transcription call has returned a failure
DirectFailed ==
    file_size < Ceiling /\ \E j \in 1..Len(calls) : IsRet(calls[j]) /\ ~calls[j].ok

\* C13: no request ends by terminating the server process or by an error
\* that leaves process_audio_service as an exception: a missing credential, a
\* remote error of the summary or of the publication and a bad schema all end
\* in a returned payload that carries an error description.
C13_ServerErrorConversion ==
    /\ spc \notin {"raised", "exited"}
    /\ spc = "responded" => response.returned
    /\ (spc = "responded" /\ schema \in {"invalid", "no_id", "id_not_text"}) =>
          response.error # "none"

\* C15: when the key of the transcription and summary service is missing, or
\* the publish token is missing and a usable schema asks for publication, no
\* remote request is ever issued.
C15_ConfigErrorsPrecedeNetwork ==
    (~api_key_set \/ (schema = "ok" /\ ~token_set)) =>
        /\ net = <<>>
        /\ ~response.notion_sent

\* C16: at most one page is submitted; a request that asks for publication
\* and completes without error has submitted exactly one, after the
\* transcription requests and the summary request; nothing is submitted
\* without a usable schema, after a failed transcription or after a failed
\* summary.
C16_PublishOnce ==
    /\ Len(Publishes) <= 1
    /\ (spc = "responded" /\ schema = "ok" /\ response.error = "none") =>
          /\ Len(Publishes) = 1
          /\ response.notion_sent
    /\ Len(Publishes) = 1 =>
          /\ Len(net) >= 2
          /\ net[Len(net)] = "publish"
          /\ net[Len(net) - 1] = "summary"
          /\ \A n \in 1..(Len(net) - 2) : net[n] = "transcription"
          /\ tpc = "done"
    /\ schema # "ok" => Publishes = <<>>
    /\ (tpc = "raised" \/ DirectFailed) => Publishes = <<>>
    /\ spc = "exited" => (Publishes = <<>> \/ net[Len(net)] = "publish")

(***************************************************************************)
(* Two requests served at the same time, each in the chunk loop and the    *)
(* cleanup loop of transcribe_audio; the directory /tmp is shared.         *)
(***************************************************************************)
RunIds == {1, 2}

\* len(chunks) of the audio files that take the chunked path and split
ChunkCounts ==
    {RangeLen(d, ChunkSize(s, d)) :
        <<s, d>> \in {x \in FileSizes \X Durations :
                        ~TakesDirectPath(x[1]) /\ ChunkSize(x[1], x[2]) >= 1}}

\* the ordinals i of chunk_path = f"/tmp/chunk_{i}.mp3"
Ordinals == 0..((CHOOSE m \in ChunkCounts : \A c \in ChunkCounts : c <= m) - 1)

InitTwo ==
    /\ MdIdle /\ TrIdle /\ NtIdle /\ CliIdle
    /\ runs \in [RunIds -> {[pc |-> "loop", n |-> c, ci |-> 0,
                              temp_files |-> <<>>, ri |-> 0] : c \in ChunkCounts}]
    /\ tmp = [k \in Ordinals |-> 0]
    /\ foreign = {}

\* run r moves on; everything outside the two runs is left alone
RunStep(r, new) ==
    /\ runs' = [runs EXCEPT ![r] = new]
    /\ UNCHANGED <<mdvars, trvars, nvars, cvars>>

\* run r touches the file of ordinal k: an access to a file that the other
\* run wrote is recorded
Touch(r, op, k) ==
    foreign' = IF tmp[k] \notin {0, r}
               THEN foreign \cup {[run |-> r, op |-> op, ord |-> k]}
               ELSE foreign

\* chunk.export(chunk_path, format="mp3"); temp_files.append(chunk_path)
TwoExport(r) ==
    LET me == runs[r] IN
    /\ me.pc = "loop" /\ me.ci < me.n
    /\ Touch(r, "overwrite", me.ci)
    /\ tmp' = [tmp EXCEPT ![me.ci] = r]
    /\ RunStep(r, [me EXCEPT !.pc = "call",
                             !.temp_files = Append(@, me.ci)])

\* transcribe_audio_chunk: open(audio_path, 'rb') fails, "" is returned; it
\* does fail when the file is gone
TwoOpenFail(r) ==
    LET me == runs[r] IN
    /\ me.pc = "call"
    /\ RunStep(r, [me EXCEPT !.pc = "loop", !.ci = @ + 1])
    /\ UNCHANGED <<tmp, foreign>>

\* transcribe_audio_chunk reads the file at chunk_path and sends it
TwoRead(r) ==
    LET me == runs[r] IN
    /\ me.pc = "call" /\ tmp[me.ci] # 0
    /\ Touch(r, "read", me.ci)
    /\ RunStep(r, [me EXCEPT !.pc = "wait"])
    /\ UNCHANGED tmp

\* the request returns a text or fails; the loop goes on either way
TwoAnswer(r) ==
    LET me == runs[r] IN
    /\ me.pc = "wait"
    /\ RunStep(r, [me EXCEPT !.pc = "loop", !.ci = @ + 1])
    /\ UNCHANGED <<tmp, foreign>>

\* the for loop over chunks is exhausted
TwoLoopEnd(r) ==
    LET me == runs[r] IN
    /\ me.pc = "loop" /\ me.ci = me.n
    /\ RunStep(r, [me EXCEPT !.pc = "cleanup"])
    /\ UNCHANGED <<tmp, foreign>>

\* os.remove(temp_file) removes the file at that path
TwoRemove(r) ==
    LET me == runs[r]
        k == me.temp_files[me.ri + 1]
    IN  /\ me.pc = "cleanup" /\ me.ri < Len(me.temp_files)
        /\ tmp[k] # 0
        /\ Touch(r, "delete", k)
        /\ tmp' = [tmp EXCEPT ![k] = 0]
        /\ RunStep(r, [me EXCEPT !.ri = @ + 1])

\* os.remove raises OSError (it does when the file is gone): logged
TwoRemoveError(r) ==
    LET me == runs[r] IN
    /\ me.pc = "cleanup" /\ me.ri < Len(me.temp_files)
    /\ RunStep(r, [me EXCEPT !.ri = @ + 1])
    /\ UNCHANGED <<tmp, foreign>>

\* return full_transcript.strip()
TwoReturn(r) ==
    LET me == runs[r] IN
    /\ me.pc = "cleanup" /\ me.ri = Len(me.temp_files)
    /\ RunStep(r, [me EXCEPT !.pc = "done"])
    /\ UNCHANGED <<tmp, foreign>>

NextTwo ==
    \/ \E r \in RunIds : TwoExport(r)
    \/ \E r \in RunIds : TwoOpenFail(r)
    \/ \E r \in RunIds : TwoRead(r)
    \/ \E r \in RunIds : TwoAnswer(r)
    \/ \E r \in RunIds : TwoLoopEnd(r)
    \/ \E r \in RunIds : TwoRemove(r)
    \/ \E r \in RunIds : TwoRemoveError(r)
    \/ \E r \in RunIds : TwoReturn(r)

SpecTwo == InitTwo /\ [][NextTwo]_vars

(***************************************************************************)
(* Claims about the command-line program.                                  *)
(***************************************************************************)
\* main is blocked in a remote call that shows a timer
Waiting == main_pc \in {"transcribe_wait", "summary_wait"}

\* C14: the stop event of every live timer is set exactly once when its call
\* has returned or failed: never twice, and once the call is over, whatever
\* the exit path, it has been set.
C14_TimerStoppedOnce ==
    /\ \A k \in 1..Len(timers) : timers[k].sets <= 1
    /\ \A k \in 1..Len(timers) :
          (k < Len(timers) \/ ~Waiting) => timers[k].sets = 1

\* C12: of two runs in their chunk loops at the same time, neither ever
\* overwrites, reads for transcription or deletes a chunk file that the other
\* run wrote.
C12_RunIsolation == foreign = {}

\* the transcription has succeeded, and the summary request has been sent and
\* has returned a summary
SummaryReturned ==
    /\ tpc = "done" /\ ~DirectFailed
    /\ \E n \in 1..Len(net) : net[n] = "summary"
    /\ spc \notin {"summary_wait", "exited"}

\* C21: a request without a schema upload whose transcription and summary
\* have succeeded never fails on the lookup of the configured schema: it is
\* answered with a payload that has notion_sent false and no error, and no
\* page is submitted.
C21_NoSchemaNoPublish ==
    (schema = "none" /\ SummaryReturned) =>
        /\ spc \in {"summarized", "responded"}
        /\ Publishes = <<>>
        /\ spc = "responded" =>
              /\ response.returned
              /\ ~response.notion_sent
              /\ response.error = "none"

====
